---- MODULE Spec2Model ----
(***************************************************************************)
(* State-machine model of the Relocation Impact Analyzer:                  *)
(*   - Analyzer (analyzer.py): analysis phase tracking, address geocoding, *)
(*     commute matrix building with rate limiting and retry handling,      *)
(*     cost and emissions of the matrix, cost differentials and attrition; *)
(*   - Graphing (graphing.py): the selection of the employees in scope of  *)
(*     an office and of their commute values;                              *)
(*   - GAPI (g_api.py): the wrapper around the googlemaps client;          *)
(*   - HTTP_UI.do_POST / do_GET (ui.py) and the command-line workers       *)
(*     (__main__.py): sentinel log files of long-running actions;          *)
(*   - Project (project.py): deleting data files and saving the project.   *)
(* Time is counted in ticks of one sleep_time (60/api_rate_limit seconds). *)
(***************************************************************************)
EXTENDS Integers, Sequences, FiniteSets, TLC

VARIABLES
    files,            \* artifacts present in the project directory on disk
    use_gps_fuzzing,  \* project.use_gps_fuzzing as stored in project.json
    project,          \* analyzer.project (a Project object, see ProjectObject)
    data,             \* names d with project.data[d] not None
    analysis_phase,   \* analyzer.analysis_phase
    pc,               \* position of the analyzer inside a long operation
    result,           \* the last operation or request, and how it ended
    fileIdx,          \* convert_addresses_to_gps: index into the out dict
    rowIdx,           \* convert_addresses_to_gps: address row being geocoded
    offIdx,           \* get_commute_data: office row (outer loop)
    empIdx,           \* get_commute_data: employee row (inner loop)
    slot,             \* get_commute_data: slot 1..10 of the current record
    matrix,           \* project.data["commute_data.csv"] rows, in order
    calls,            \* googlemaps calls issued for the current item
    firstExc,         \* outcome of the item's first call and the exception seen
    opCalls,          \* googlemaps calls issued by the current operation
    missing,          \* a prerequisite artifact was missing when it started
    elapsed,          \* ticks since analyzer.last_call (saturating)
    gap,              \* ticks since the operation's previous call ended (-1: none)
    shortGap,         \* the operation started a call less than sleep_time after one
    coords,           \* coordinates of the rows of the employee and office gps files
    saved,            \* rows of commute_data.csv as last written to disk
    call,             \* the last helper or provider call: name, arguments, outcome
    sentinel,         \* UI: sentinel log files present, by action
    handler,          \* UI: position of the do_POST handler
    worker,           \* UI: worker processes launched and running, by action
    ran               \* UI: the worker's run has begun / finished, by action

svars == <<files, use_gps_fuzzing, project, data, analysis_phase, pc, result,
           fileIdx, rowIdx, offIdx, empIdx, slot, matrix, calls, firstExc,
           opCalls, missing, elapsed, gap, shortGap, coords, saved>>
avars == <<svars, call>>
fvars == <<coords, saved, call>>
uvars == <<sentinel, handler, worker, ran>>
vars == <<avars, uvars, fvars>>

-----------------------------------------------------------------------------
(* Bounds of the model *)

NumEmployees == 1      \* rows of the employee files
NumOffices == 2        \* rows of the office files
MaxCallTicks == 1      \* longest duration of one googlemaps call, in ticks
MaxTokens == 2         \* longest text handed to the unit parsers, in tokens
NumScoped == 3         \* employees of the frames handed to the aggregation helpers
NumDays == 14          \* calendar days a build can start on
MaxWorkers == 2        \* worker processes of one action alive at a time

(* Program constants *)

api_rate_limit == 300  \* analyzer.py:54
SleepTicks == 1        \* analyzer.py:55, sleep_time expressed in ticks
RetryBackoff == 10000  \* analyzer.py:603 and 363, seconds
NumSlots == 10         \* analyzer.py:517-518, 5 days x 2 times
Unset == -1            \* analyzer.py:572, the "incomplete" sentinel

TicksPerSecond == api_rate_limit \div 60

\* The elapsed time is counted up to the first whole second: sleepif reads
\* whole seconds and compares them with a sleep_time below one second, so it
\* tells no two longer times apart.
MaxElapsed == TicksPerSecond

-----------------------------------------------------------------------------
(* Artifacts *)

EmpAddr == "employee_addresses.csv"
OffAddr == "office_addresses.csv"
EmpGps == "employee_gps.csv"
OffGps == "office_gps.csv"
GpsFuzz == "gps_fuzz.csv"
CommuteData == "commute_data.csv"
GraphsJson == "plots/graphs.json"
TablesJson == "tables/tables.json"

data_file_definitions == {EmpAddr, EmpGps, GpsFuzz, OffAddr, OffGps, CommuteData}
Artifacts == data_file_definitions \cup {GraphsJson, TablesJson}

\* Values of use_gps_fuzzing: the booleans and the strings the code compares with.
FuzzFlags == {"bTrue", "bFalse", "sTrue", "sFalse"}
Truthy(v) == v # "bFalse"

\* The projects directory itself holds project folders only.
RootListing == {}

\* Analyzer.__init__ always builds a Project, also when no name is given;
\* an unnamed Project has project_name "".
ProjectObject(proj) == [is_none |-> FALSE, project_name |-> proj]

\* Project.list_data_files and the os.listdir calls of update_analysis_phase:
\* the directory listed is project_directory/project_name.
Listing(p, fs) == IF p.project_name = "" THEN RootListing ELSE fs

RetNone == [kind |-> "None", val |-> 0]
RetInt(n) == [kind |-> "int", val |-> n]
RetBool(b) == [kind |-> "bool", val |-> IF b THEN 1 ELSE 0]
RetList == [kind |-> "list", val |-> 0]

-----------------------------------------------------------------------------
(* Analyzer.update_analysis_phase: new phase and return value, from the     *)
(* phase held before, the project, the directory listing and the flag.      *)

\* The variant the commented-out lines of the method describe: phase 7 once
\* tables/tables.json is there.
PhaseWithTables(prev, p, fs, fz) ==
    LET ls == Listing(p, fs) IN
    IF p.is_none THEN [phase |-> 0, ret |-> RetInt(0)]
    ELSE IF EmpAddr \notin ls THEN [phase |-> 1, ret |-> RetInt(1)]
    ELSE IF OffAddr \notin ls THEN [phase |-> prev, ret |-> RetNone]
    ELSE IF EmpGps \notin ls \/ OffGps \notin ls THEN [phase |-> 2, ret |-> RetInt(2)]
    ELSE IF ~ (GpsFuzz \in ls \/ fz = "bFalse" \/ fz = "sFalse")
         THEN [phase |-> 3, ret |-> RetInt(3)]
    ELSE IF CommuteData \notin ls THEN [phase |-> 4, ret |-> RetInt(4)]
    ELSE IF GraphsJson \notin ls THEN [phase |-> 5, ret |-> RetInt(5)]
    ELSE IF TablesJson \notin ls THEN [phase |-> 6, ret |-> RetInt(6)]
    ELSE [phase |-> 7, ret |-> RetInt(7)]

update_analysis_phase(prev, p, fs, fz) ==
    LET ls == Listing(p, fs) IN
    IF p.is_none THEN [phase |-> 0, ret |-> RetInt(0)]
    ELSE IF EmpAddr \notin ls THEN [phase |-> 1, ret |-> RetInt(1)]
    ELSE IF EmpAddr \in ls /\ OffAddr \in ls THEN
        IF EmpGps \in ls /\ OffGps \in ls THEN
            IF GpsFuzz \in ls \/ fz = "bFalse" \/ fz = "sFalse" THEN
                IF CommuteData \in ls THEN
                    IF GraphsJson \in ls THEN
                        IF TablesJson \in ls
                        THEN [phase |-> 6, ret |-> RetInt(6)]
                        ELSE [phase |-> 6, ret |-> RetInt(6)]
                    ELSE [phase |-> 5, ret |-> RetInt(5)]
                ELSE [phase |-> 4, ret |-> RetInt(4)]
            ELSE [phase |-> 3, ret |-> RetInt(3)]
        ELSE [phase |-> 2, ret |-> RetInt(2)]
    ELSE [phase |-> prev, ret |-> RetNone]   \* falls off the end of the method

Finished(op, status, ret, exc) ==
    [op |-> op, status |-> status, ret |-> ret, exc |-> exc]

-----------------------------------------------------------------------------
(* GAPI: the googlemaps wrapper *)

\* GAPI.__init__: exception class name -> recoverability.
google_api_exceptions ==
    [c \in {"ApiError", "TransportError", "HttpError", "Timeout",
            "_RetriableRequest", "_OverQueryLimit", "EmptyResult"} |->
        IF c = "ApiError" THEN "non-recoverable" ELSE "recoverable"]

\* What one googlemaps client call can do: answer, answer with an empty
\* list, answer with a malformed body, or raise one of its exceptions.
ClientOutcomes == {"ok", "empty", "malformed", "ApiError", "Timeout", "TransportError"}

\* GAPI.commute: the exception class that leaves the method ("none" when it
\* returns the commute dict).  Every exception of gmaps.directions, and the
\* IndexError/KeyError of an empty or malformed answer, is caught by the
\* except clause, whose note concatenates a str with the origin tuple: that
\* raises TypeError out of the handler.
commute_exc(outcome) == IF outcome = "ok" THEN "none" ELSE "TypeError"

\* GAPI.geocode: gmaps.geocode is called outside the try, so its exceptions
\* leave unchanged; an empty answer raises EmptyResult, a malformed one
\* re-raises the KeyError.
geocode_exc(outcome) ==
    CASE outcome = "ok" -> "none"
      [] outcome = "empty" -> "EmptyResult"
      [] outcome = "malformed" -> "KeyError"
      [] OTHER -> outcome

\* A handler that takes every exception for a recoverable one.
RetryAnyException(exc) == TRUE

\* Analyzer.handle_GAPI_exception: TRUE iff the class is mapped recoverable.
handle_GAPI_exception(exc) ==
    IF exc \in DOMAIN google_api_exceptions
    THEN google_api_exceptions[exc] = "recoverable"
    ELSE FALSE

\* get_commute_data's retry statement: evaluating its arguments calls the
\* destination tuple, destination(0), which raises TypeError before
\* gAPI.commute is entered.
commute_retry(outcome) == [called |-> FALSE, exc |-> "TypeError"]

\* convert_addresses_to_gps's retry statement: a second gAPI.geocode call.
geocode_retry(outcome) == [called |-> TRUE, exc |-> geocode_exc(outcome)]

-----------------------------------------------------------------------------
(* Unit parsing.  A text is a sequence of tokens, an amount followed by a   *)
(* unit word; Captured gives the unit group the regular expression captures *)
(* for the word ("" when the token does not match).                         *)

Tok(n, w) == [amount |-> n, word |-> w]

\* re.findall(r'(\d+)\s*(hour|minute|second|min|sec|hrs|hours|minutes|mins|seconds)s?', re.IGNORECASE)
TimeCaptured(w) ==
    CASE w \in {"hour", "hours"} -> "hour"
      [] w \in {"Hour", "Hours"} -> "Hour"
      [] w = "hrs" -> "hrs"
      [] w = "HRS" -> "HRS"
      [] w \in {"minute", "minutes"} -> "minute"
      [] w \in {"min", "mins"} -> "min"
      [] w \in {"Min", "Mins"} -> "Min"
      [] w \in {"second", "seconds"} -> "second"
      [] w \in {"sec", "secs"} -> "sec"
      [] OTHER -> ""

RECURSIVE SumTime(_, _)
SumTime(text, kind) ==
    IF text = <<>> THEN 0
    ELSE LET u == TimeCaptured(Head(text).word)
             k == IF u \in {"hour", "hrs"} THEN "hours"
                  ELSE IF u \in {"minute", "min"} THEN "minutes"
                  ELSE IF u \in {"second", "sec"} THEN "seconds"
                  ELSE "skip"
         IN (IF k = kind THEN Head(text).amount ELSE 0) + SumTime(Tail(text), kind)

\* A conversion that also counts the whole minutes of the seconds.
MinutesWithSeconds(text) ==
    SumTime(text, "hours") * 60 + SumTime(text, "minutes") + SumTime(text, "seconds")

convert_stringtime_to_minutes(text) ==
    SumTime(text, "hours") * 60 + SumTime(text, "minutes")

\* re.findall(r'(\b\d+(?:\.\d+)?)\s*(mile|kilometer|meter|foot|yard|inch|mi|km|m|ft|yd|in)s?', re.IGNORECASE)
DistCaptured(w) ==
    CASE w \in {"mile", "miles"} -> "mile"
      [] w = "mi" -> "mi"
      [] w = "Mi" -> "Mi"
      [] w \in {"kilometer", "kilometers"} -> "kilometer"
      [] w = "km" -> "km"
      [] w \in {"meter", "meters"} -> "meter"
      [] w = "m" -> "m"
      [] w = "ft" -> "ft"
      [] w = "yd" -> "yd"
      [] w = "in" -> "in"
      [] OTHER -> ""

\* The amount group (\b\d+(?:\.\d+)?) for an amount n as the directions
\* service writes it: from 1000 on the digits are grouped ("1,234 mi") and
\* the match starts after the last separator.
DistAmount(n) == IF n >= 1000 THEN n % 1000 ELSE n

RECURSIVE SumMiles(_)
SumMiles(text) ==
    IF text = <<>> THEN 0
    ELSE (IF DistCaptured(Head(text).word) \in {"mile", "mi"}
          THEN DistAmount(Head(text).amount) ELSE 0) + SumMiles(Tail(text))

convert_stringdistance_to_d(text) == SumMiles(text)

\* The directions service, as seen for office row o, employee row e and slot
\* s (odd slots are mornings): free-text distance, duration and
\* duration_in_traffic.  Evening trips run the other way and may differ.
IsEvening(s) == s % 2 = 0
directions(o, e, s) ==
    [distance |-> <<Tok(10 * o + e + (IF IsEvening(s) THEN 1 ELSE 0), "mi")>>,
     duration |-> <<Tok(20 + o, "mins")>>,
     duration_in_traffic |->
        IF s = 1 THEN <<Tok(1, "hour"), Tok(e, "mins")>>
        ELSE IF s = 2 THEN <<>>
        ELSE <<Tok(30 + s, "mins")>>]

-----------------------------------------------------------------------------
(* The analyzer: construction and the short operations *)

ProjectNames == {"", "P"}

Saturate(n) == IF n > MaxElapsed THEN MaxElapsed ELSE n
GapAfter(g, n) == IF g < 0 THEN g ELSE IF g + n > SleepTicks THEN SleepTicks ELSE g + n

\* Analyzer.__init__(proj): last_call is set one sleep_time in the past, the
\* phase to 0, the Project is built, and the phase is updated.
\* What the first googlemaps call of the current item did, and the exception
\* class the except clause of the analyzer saw.
NoExc == [outcome |-> "none", seen |-> "none"]
Seen(o, e) == [outcome |-> o, seen |-> e]

AnalyzerInit(proj, fs, fz) ==
    /\ project = ProjectObject(proj)
    /\ data = {}
    /\ matrix = <<>>
    /\ analysis_phase = update_analysis_phase(0, ProjectObject(proj), fs, fz).phase
    /\ pc = "idle"
    /\ result = Finished("__init__", "returned", RetNone, "none")
    /\ fileIdx = 0 /\ rowIdx = 0 /\ offIdx = 0 /\ empIdx = 0 /\ slot = 0
    /\ calls = 0 /\ firstExc = NoExc /\ opCalls = 0 /\ missing = FALSE
    /\ elapsed = SleepTicks
    /\ gap = -1
    /\ shortGap = FALSE

\* A row of employee_gps.csv, gps_fuzz.csv or office_gps.csv: its coordinates.
Point(lat, long) == [latitude |-> lat, longitude |-> long]

\* The gps files of the project.  Two employee rows differ in their
\* coordinates; the office rows either all differ, or the second row repeats
\* the coordinates of the first (the same building entered twice).
Frames ==
    { [emp |-> [e \in 1..NumEmployees |-> Point(e, e)],
       off |-> [o \in 1..NumOffices |->
                  IF dup /\ o = 2 THEN Point(11, 11) ELSE Point(10 + o, 10 + o)]] :
      dup \in BOOLEAN }

\* No helper has been applied yet.
NoCall == [fn |-> "none"]

\* The data on disk and the helper record at the start.
DiskInit ==
    /\ coords \in Frames
    /\ saved = <<>>
    /\ call = NoCall

\* The long-running actions of the UI and the sentinel log of each.
UIActions == {"do_convert_addresses_latlong", "do_gen_commute", "do_gen_graphs"}

UIInit ==
    /\ sentinel = [a \in UIActions |-> FALSE]
    /\ handler = [action |-> "none", at |-> "idle", status |-> "none"]
    /\ worker = [a \in UIActions |-> [launched |-> 0, running |-> 0]]
    /\ ran = [a \in UIActions |-> "no"]

Init ==
    /\ files = {}
    /\ use_gps_fuzzing = "bTrue"
    /\ AnalyzerInit("", {}, "bTrue")
    /\ DiskInit
    /\ UIInit

positions == <<fileIdx, rowIdx, offIdx, empIdx, slot>>
counters == <<calls, firstExc, opCalls, missing>>
clock == <<elapsed, gap, shortGap>>

\* An operation that never reaches the googlemaps client.
NoCalls == calls' = 0 /\ firstExc' = NoExc /\ opCalls' = 0 /\ missing' = FALSE

\* a = Analyzer(proj): a fresh analyzer replaces the one at hand.
Construct ==
    /\ pc \in {"idle", "crashed"}
    /\ pc' = "idle"
    /\ \E proj \in ProjectNames :
        /\ project' = ProjectObject(proj)
        /\ analysis_phase' =
             update_analysis_phase(0, ProjectObject(proj), files, use_gps_fuzzing).phase
    /\ data' = {} /\ matrix' = <<>>
    /\ result' = Finished("__init__", "returned", RetNone, "none")
    /\ fileIdx' = 0 /\ rowIdx' = 0 /\ offIdx' = 0 /\ empIdx' = 0 /\ slot' = 0
    /\ calls' = 0 /\ firstExc' = NoExc /\ opCalls' = 0 /\ missing' = FALSE
    /\ elapsed' = SleepTicks /\ gap' = -1 /\ shortGap' = FALSE
    /\ call' = NoCall
    /\ UNCHANGED <<files, use_gps_fuzzing, uvars, coords, saved>>

\* Analyzer.create_project(name): a new Project, then the phase update.
create_project ==
    /\ pc = "idle"
    /\ project' = ProjectObject("P")
    /\ data' = {} /\ matrix' = <<>>
    /\ analysis_phase' =
         update_analysis_phase(analysis_phase, project', files, use_gps_fuzzing).phase
    /\ result' = Finished("create_project", "returned", RetBool(TRUE), "none")
    /\ NoCalls
    /\ UNCHANGED <<files, use_gps_fuzzing, pc, positions, clock, uvars, fvars>>

\* Analyzer.load_project(name): a new Project, load_graphs, the phase update.
load_project ==
    /\ pc = "idle"
    /\ project' = ProjectObject("P")
    /\ data' = {} /\ matrix' = <<>>
    /\ analysis_phase' =
         update_analysis_phase(analysis_phase, project', files, use_gps_fuzzing).phase
    /\ result' = Finished("load_project", "returned", RetBool(TRUE), "none")
    /\ NoCalls
    /\ UNCHANGED <<files, use_gps_fuzzing, pc, positions, clock, uvars, fvars>>

\* A direct call of Analyzer.update_analysis_phase.
UpdatePhase ==
    /\ pc = "idle"
    /\ LET r == update_analysis_phase(analysis_phase, project, files, use_gps_fuzzing) IN
        /\ analysis_phase' = r.phase
        /\ result' = Finished("update_analysis_phase", "returned", r.ret, "none")
    /\ NoCalls
    /\ UNCHANGED <<files, use_gps_fuzzing, project, data, pc, matrix,
                   positions, clock, uvars, fvars>>

\* Analyzer.fuzz_employee_gps: writes gps_fuzz.csv and updates the phase, or
\* returns False when employee_gps.csv is not listed.
fuzz_employee_gps ==
    /\ pc = "idle"
    /\ IF EmpGps \in Listing(project, files)
       THEN /\ data' = data \cup {EmpGps, GpsFuzz}
            /\ files' = files \cup {GpsFuzz}
            /\ analysis_phase' =
                 update_analysis_phase(analysis_phase, project, files', use_gps_fuzzing).phase
            /\ result' = Finished("fuzz_employee_gps", "returned", RetNone, "none")
       ELSE /\ result' = Finished("fuzz_employee_gps", "returned", RetBool(FALSE), "none")
            /\ UNCHANGED <<data, files, analysis_phase>>
    /\ NoCalls
    /\ UNCHANGED <<use_gps_fuzzing, project, pc, matrix, positions, clock, uvars, fvars>>

\* Project.get_emp_gps / get_office_gps as generate_graphs and
\* generate_tables use them: the frame is loaded from disk when it is not in
\* memory, and stays None when the file is not there either.
EmpKey(fz) == IF Truthy(fz) THEN GpsFuzz ELSE EmpGps
Available(d, p, fs, f) == f \in d \/ f \in Listing(p, fs)

\* Analyzer.generate_graphs: False without commute_data.csv; len(None) raises
\* TypeError when a GPS frame is missing; else plots/graphs.json is written
\* and the phase updated.
generate_graphs ==
    /\ pc = "idle"
    /\ IF CommuteData \notin Listing(project, files)
       THEN /\ result' = Finished("generate_graphs", "returned", RetBool(FALSE), "none")
            /\ UNCHANGED <<data, files, analysis_phase, pc>>
       ELSE IF ~ Available(data, project, files, EmpKey(use_gps_fuzzing))
               \/ ~ Available(data, project, files, OffGps)
       THEN /\ result' = Finished("generate_graphs", "raised", RetNone, "TypeError")
            /\ pc' = "crashed"
            /\ data' = data \cup {CommuteData}
                        \cup (Listing(project, files) \cap {EmpKey(use_gps_fuzzing), OffGps})
            /\ UNCHANGED <<files, analysis_phase>>
       ELSE /\ data' = data \cup {CommuteData, EmpKey(use_gps_fuzzing), OffGps}
            /\ files' = files \cup {GraphsJson}
            /\ analysis_phase' =
                 update_analysis_phase(analysis_phase, project, files', use_gps_fuzzing).phase
            /\ result' = Finished("generate_graphs", "returned", RetList, "none")
            /\ UNCHANGED pc
    /\ matrix' = IF CommuteData \in data' \ data THEN saved ELSE matrix
    /\ NoCalls
    /\ UNCHANGED <<use_gps_fuzzing, project, positions, clock, uvars, fvars>>

\* Analyzer.generate_tables: the same shape (None.iterrows() raises
\* AttributeError), writing tables/tables.json.
generate_tables ==
    /\ pc = "idle"
    /\ IF CommuteData \notin Listing(project, files)
       THEN /\ result' = Finished("generate_tables", "returned", RetBool(FALSE), "none")
            /\ UNCHANGED <<data, files, analysis_phase, pc>>
       ELSE IF ~ Available(data, project, files, EmpKey(use_gps_fuzzing))
               \/ ~ Available(data, project, files, OffGps)
       THEN /\ result' = Finished("generate_tables", "raised", RetNone, "AttributeError")
            /\ pc' = "crashed"
            /\ data' = data \cup {CommuteData}
                        \cup (Listing(project, files) \cap {EmpKey(use_gps_fuzzing), OffGps})
            /\ UNCHANGED <<files, analysis_phase>>
       ELSE /\ data' = data \cup {CommuteData, EmpKey(use_gps_fuzzing), OffGps}
            /\ files' = files \cup {TablesJson}
            /\ analysis_phase' =
                 update_analysis_phase(analysis_phase, project, files', use_gps_fuzzing).phase
            /\ result' = Finished("generate_tables", "returned", RetList, "none")
            /\ UNCHANGED pc
    /\ matrix' = IF CommuteData \in data' \ data THEN saved ELSE matrix
    /\ NoCalls
    /\ UNCHANGED <<use_gps_fuzzing, project, positions, clock, uvars, fvars>>

-----------------------------------------------------------------------------
(* Rate limiting *)

\* (datetime.now() - self.last_call).seconds: whole seconds of the elapsed time.
Seconds(t) == t \div TicksPerSecond

\* Analyzer.sleepif: the ticks slept.  It sleeps sleep_time - seconds when the
\* whole seconds elapsed since last_call are below sleep_time, i.e. are 0;
\* last_call itself is assigned in __init__ only.
sleepif(t) ==
    IF Seconds(t) * TicksPerSecond < SleepTicks
    THEN SleepTicks - Seconds(t) * TicksPerSecond
    ELSE 0

\* One googlemaps call preceded by sleepif, taking d ticks: the new elapsed
\* time, the gap since the call ended, and whether the call started too soon
\* after the previous one.
CallClock(d) ==
    LET s == sleepif(elapsed)
        g == GapAfter(gap, s)
    IN /\ elapsed' = Saturate(elapsed + s + d)
       /\ gap' = 0
       /\ shortGap' = (shortGap \/ (g >= 0 /\ g < SleepTicks))

\* The same with the failed first call followed by sleep(10000) and a retry
\* that may or may not reach the client.
RetryClock(d, called) ==
    LET s == sleepif(elapsed)
        g == GapAfter(gap, s)
    IN /\ elapsed' = Saturate(elapsed + s + d + RetryBackoff * TicksPerSecond)
       /\ gap' = IF called THEN 0 ELSE SleepTicks
       /\ shortGap' = (shortGap \/ (g >= 0 /\ g < SleepTicks))

\* The time that has passed since the analyzer was last used, when a long
\* operation starts.
Later ==
    \E t \in 0..MaxElapsed :
        /\ elapsed' = Saturate(elapsed + t)
        /\ gap' = -1
        /\ shortGap' = FALSE

\* Time passing between two steps of a long operation.
Tick ==
    /\ pc \notin {"idle", "crashed"}
    /\ elapsed < MaxElapsed \/ (gap >= 0 /\ gap < SleepTicks)
    /\ elapsed' = Saturate(elapsed + 1)
    /\ gap' = GapAfter(gap, 1)
    /\ UNCHANGED <<files, use_gps_fuzzing, project, data, analysis_phase, pc, result,
                   matrix, positions, counters, shortGap, uvars, fvars>>

-----------------------------------------------------------------------------
(* Analyzer.convert_addresses_to_gps *)

\* The out dict, in insertion order.
AddrFile(i) == IF i = 1 THEN EmpAddr ELSE OffAddr
GpsFile(i) == IF i = 1 THEN EmpGps ELSE OffGps
Rows(f) == IF f \in {EmpAddr, EmpGps, GpsFuzz} THEN NumEmployees ELSE NumOffices

Return(op, ret) ==
    /\ pc' = "idle"
    /\ result' = Finished(op, "returned", ret, "none")
    /\ fileIdx' = 0 /\ rowIdx' = 0 /\ offIdx' = 0 /\ empIdx' = 0 /\ slot' = 0

\* An exception leaves the operation.  No caller of the analyzer catches it
\* (the command-line worker and the request handler end with it), so the
\* analyzer object is not used again: the next step is a fresh Analyzer.
Raise(op, exc) ==
    /\ pc' = "crashed"
    /\ result' = Finished(op, "raised", RetNone, exc)
    /\ fileIdx' = 0 /\ rowIdx' = 0 /\ offIdx' = 0 /\ empIdx' = 0 /\ slot' = 0

\* Entry: the log is opened and the GAPI object created.
ConvertStart ==
    /\ pc = "idle"
    /\ pc' = "convert_file"
    /\ fileIdx' = 1 /\ rowIdx' = 0
    /\ calls' = 0 /\ firstExc' = NoExc /\ opCalls' = 0
    /\ missing' = ({EmpAddr, OffAddr} \ Listing(project, files) # {})
    /\ result' = Finished("convert_addresses_to_gps", "running", RetNone, "none")
    /\ Later
    /\ UNCHANGED <<files, use_gps_fuzzing, project, data, analysis_phase,
                   offIdx, empIdx, slot, matrix, uvars, fvars>>

\* Head of the loop over the out dict: the file is looked up, loaded, and
\* the GPS frame started; a file that is not listed ends the method with
\* False; after the last file the method returns True.
ConvertFile ==
    /\ pc = "convert_file"
    /\ IF fileIdx > 2
       THEN /\ Return("convert_addresses_to_gps", RetBool(TRUE))
            /\ UNCHANGED data
       ELSE IF AddrFile(fileIdx) \notin Listing(project, files)
       THEN /\ Return("convert_addresses_to_gps", RetBool(FALSE))
            /\ UNCHANGED data
       ELSE /\ data' = data \cup {AddrFile(fileIdx), GpsFile(fileIdx)}
            /\ pc' = "convert_row"
            /\ rowIdx' = 1
            /\ UNCHANGED <<result, fileIdx, offIdx, empIdx, slot>>
    /\ UNCHANGED <<files, use_gps_fuzzing, project, analysis_phase, matrix,
                   counters, clock, uvars, fvars>>

\* One address row: sleepif, gAPI.geocode, the exception handling with its
\* single retry, and the row insertion.
GeocodeRow ==
    /\ pc = "convert_row"
    /\ rowIdx <= Rows(AddrFile(fileIdx))
    /\ \E o1 \in ClientOutcomes, d \in 0..MaxCallTicks :
        LET e1 == geocode_exc(o1)
        IN /\ firstExc' = Seen(o1, e1)
           /\ IF e1 = "none"
              THEN /\ calls' = 1 /\ opCalls' = opCalls + 1
                   /\ CallClock(d)
                   /\ rowIdx' = rowIdx + 1
                   /\ UNCHANGED <<pc, result, fileIdx, offIdx, empIdx, slot>>
              ELSE IF handle_GAPI_exception(e1)
              THEN \E o2 \in ClientOutcomes :
                     LET r == geocode_retry(o2) IN
                     /\ calls' = 1 + (IF r.called THEN 1 ELSE 0)
                     /\ opCalls' = opCalls + 1 + (IF r.called THEN 1 ELSE 0)
                     /\ RetryClock(d, r.called)
                     /\ IF r.exc = "none"
                        THEN /\ rowIdx' = rowIdx + 1
                             /\ UNCHANGED <<pc, result, fileIdx, offIdx, empIdx, slot>>
                        ELSE Raise("convert_addresses_to_gps", r.exc)
              ELSE /\ calls' = 1 /\ opCalls' = opCalls + 1
                   /\ CallClock(d)
                   /\ Raise("convert_addresses_to_gps", e1)
    /\ UNCHANGED <<files, use_gps_fuzzing, project, data, analysis_phase, matrix,
                   missing, uvars, fvars>>

\* After the last row of a file: the GPS file is saved and the phase updated.
ConvertSave ==
    /\ pc = "convert_row"
    /\ rowIdx > Rows(AddrFile(fileIdx))
    /\ files' = files \cup {GpsFile(fileIdx)}
    /\ analysis_phase' =
         update_analysis_phase(analysis_phase, project, files', use_gps_fuzzing).phase
    /\ fileIdx' = fileIdx + 1
    /\ rowIdx' = 0
    /\ pc' = "convert_file"
    /\ UNCHANGED <<use_gps_fuzzing, project, data, result, offIdx, empIdx, slot,
                   matrix, counters, clock, uvars, fvars>>

-----------------------------------------------------------------------------
(* Analyzer.get_commute_data *)

Slots == 1..NumSlots

\* A row created with 0 instead of the sentinel in its emissions columns.
RecordZeroEmissions(o, e) ==
    [office |-> o, origin |-> coords.emp[e], destination |-> coords.off[o],
     miles |-> Unset, duration |-> Unset, emissions |-> 0, commute_cost |-> Unset,
     duration_in_traffic |-> [s \in 1..NumSlots |-> Unset],
     slot_emissions |-> [s \in 1..NumSlots |-> 0]]

\* The row created for an (office, employee) pair: the identifying columns
\* (office_address, origin_lat/long, destination_lat/long) and -1 in each of
\* the 24 computed columns (miles, duration, emissions, commute_cost, and per
\* slot duration_in_traffic and emissions).
NewRecord(o, e) ==
    [office |-> o, origin |-> coords.emp[e], destination |-> coords.off[o],
     miles |-> Unset, duration |-> Unset, emissions |-> Unset, commute_cost |-> Unset,
     duration_in_traffic |-> [s \in Slots |-> Unset],
     slot_emissions |-> [s \in Slots |-> Unset]]

\* The employee frame the checks at the top load, and the one the loop reads.
CheckedKey(fz) == IF fz = "bTrue" \/ fz = "sTrue" THEN GpsFuzz ELSE EmpGps
data_key(fz) == IF fz = "bFalse" THEN EmpGps ELSE GpsFuzz

\* Entry: the prerequisite checks (each ends the method with False), then the
\* log is touched and the commute frame started.
CommuteStart ==
    /\ pc = "idle"
    /\ calls' = 0 /\ firstExc' = NoExc /\ opCalls' = 0
    /\ missing' = ({CheckedKey(use_gps_fuzzing), OffGps} \ Listing(project, files) # {})
    /\ IF CheckedKey(use_gps_fuzzing) \notin Listing(project, files)
       THEN /\ Return("get_commute_data", RetBool(FALSE))
            /\ UNCHANGED <<data, matrix>>
       ELSE IF OffGps \notin Listing(project, files)
       THEN /\ Return("get_commute_data", RetBool(FALSE))
            /\ data' = data \cup {CheckedKey(use_gps_fuzzing)}
            /\ UNCHANGED matrix
       ELSE /\ data' = data \cup {CheckedKey(use_gps_fuzzing), OffGps, CommuteData}
            /\ matrix' = <<>>
            /\ pc' = "commute_record"
            /\ offIdx' = 1 /\ empIdx' = 1 /\ slot' = 0
            /\ result' = Finished("get_commute_data", "running", RetNone, "none")
            /\ UNCHANGED <<fileIdx, rowIdx>>
    /\ Later
    /\ call' = NoCall
    /\ UNCHANGED <<files, use_gps_fuzzing, project, analysis_phase, uvars, coords, saved>>

\* Head of the loops: the next (office, employee) row is created with its
\* sentinels; iterating a frame that is None raises AttributeError; after
\* the last office the frame is saved and the method ends without a return
\* statement, and with it the source and destination it held for its calls.
CommuteRecord ==
    /\ pc = "commute_record"
    /\ IF offIdx <= NumOffices /\ data_key(use_gps_fuzzing) \notin data
       THEN /\ Raise("get_commute_data", "AttributeError")
            /\ UNCHANGED <<files, saved, matrix, call>>
       ELSE IF offIdx > NumOffices \/ NumEmployees = 0
       THEN /\ files' = files \cup {CommuteData}
            /\ saved' = matrix
            /\ Return("get_commute_data", RetNone)
            /\ call' = NoCall
            /\ UNCHANGED matrix
       ELSE /\ matrix' = Append(matrix, NewRecord(offIdx, empIdx))
            /\ slot' = 1
            /\ pc' = "commute_slot"
            /\ UNCHANGED <<files, saved, result, fileIdx, rowIdx, offIdx, empIdx, call>>
    /\ UNCHANGED <<use_gps_fuzzing, project, data, analysis_phase, counters,
                   clock, uvars, coords>>

\* A row update that leaves out the columns of the first slot.
FilledTrafficOnly(rec, s, commute) ==
    [rec EXCEPT !.duration_in_traffic[s] =
        convert_stringtime_to_minutes(commute.duration_in_traffic)]

\* A row update that writes miles and duration from every slot.
FilledEverySlot(rec, s, commute) ==
    [rec EXCEPT !.duration_in_traffic[s] =
                    convert_stringtime_to_minutes(commute.duration_in_traffic),
                !.miles = convert_stringdistance_to_d(commute.distance),
                !.duration = convert_stringtime_to_minutes(commute.duration)]

\* The columns written from the commute dict of slot s.
Filled(rec, s, commute) ==
    LET r1 == [rec EXCEPT !.duration_in_traffic[s] =
                   convert_stringtime_to_minutes(commute.duration_in_traffic)]
    IN IF s = 1
       THEN [r1 EXCEPT !.miles = convert_stringdistance_to_d(commute.distance),
                       !.duration = convert_stringtime_to_minutes(commute.duration)]
       ELSE r1

\* A loop control that leaves a record one slot early.
AdvanceBeforeLast ==
    IF slot < NumSlots - 1
    THEN /\ slot' = slot + 1
         /\ UNCHANGED <<pc, offIdx, empIdx>>
    ELSE /\ slot' = 0
         /\ pc' = "commute_record"
         /\ IF empIdx < NumEmployees
            THEN empIdx' = empIdx + 1 /\ UNCHANGED offIdx
            ELSE empIdx' = 1 /\ offIdx' = offIdx + 1

\* Loop control after a slot: the next slot, the next employee, the next office.
Advance ==
    IF slot < NumSlots
    THEN /\ slot' = slot + 1
         /\ UNCHANGED <<pc, offIdx, empIdx>>
    ELSE /\ slot' = 0
         /\ pc' = "commute_record"
         /\ IF empIdx < NumEmployees
            THEN empIdx' = empIdx + 1 /\ UNCHANGED offIdx
            ELSE empIdx' = 1 /\ offIdx' = offIdx + 1

\* A query that leaves the office whatever the time of day.
TripFromOffice(o, e, s) ==
    [fn |-> "commute", row |-> Len(matrix), slot |-> s,
     origin |-> coords.off[o], destination |-> coords.emp[e], departure |-> s]

\* The arguments of gAPI.commute for office row o, employee row e and slot
\* s: source and destination by the time of day, and commutes[day_time].
Trip(o, e, s) ==
    [fn |-> "commute", row |-> Len(matrix), slot |-> s,
     origin |-> IF IsEvening(s) THEN coords.emp[e] ELSE coords.off[o],
     destination |-> IF IsEvening(s) THEN coords.off[o] ELSE coords.emp[e],
     departure |-> s]

\* One slot of the current record: sleepif, gAPI.commute, the exception
\* handling, and the update of the row.
CommuteSlot ==
    /\ pc = "commute_slot"
    /\ \E o1 \in ClientOutcomes, d \in 0..MaxCallTicks :
        LET e1 == commute_exc(o1)
            n == Len(matrix)
            commute == directions(offIdx, empIdx, slot)
            write == /\ matrix' = [matrix EXCEPT ![n] = Filled(matrix[n], slot, commute)]
                     /\ Advance
                     /\ UNCHANGED <<result, fileIdx, rowIdx>>
        IN /\ firstExc' = Seen(o1, e1)
           /\ call' = Trip(offIdx, empIdx, slot)
           /\ IF e1 = "none"
              THEN /\ calls' = 1 /\ opCalls' = opCalls + 1
                   /\ CallClock(d)
                   /\ write
              ELSE IF handle_GAPI_exception(e1)
              THEN \E o2 \in ClientOutcomes :
                     LET r == commute_retry(o2) IN
                     /\ calls' = 1 + (IF r.called THEN 1 ELSE 0)
                     /\ opCalls' = opCalls + 1 + (IF r.called THEN 1 ELSE 0)
                     /\ RetryClock(d, r.called)
                     /\ IF r.exc = "none"
                        THEN write
                        ELSE Raise("get_commute_data", r.exc) /\ UNCHANGED matrix
              ELSE /\ calls' = 1 /\ opCalls' = opCalls + 1
                   /\ CallClock(d)
                   /\ Raise("get_commute_data", e1)
                   /\ UNCHANGED matrix
    /\ UNCHANGED <<files, use_gps_fuzzing, project, data, analysis_phase, missing, uvars,
                   coords, saved>>

-----------------------------------------------------------------------------
(* Analyzer.get_commute_cost and Analyzer.get_commute_emissions.  Numbers   *)
(* are fixed-point: rates and coefficients in hundredths, CO2_per_mile and  *)
(* the speed thresholds in thousandths; miles and minutes are whole.        *)

\* Project.project_file_attributes: the defaults of a new project.
ProjectAttributes ==
    [commute_range_cut_off |-> 50,
     commute_days_per_week |-> 2,
     commute_weeks_per_year |-> 50,
     CO2_per_mile |-> 404,
     traffic_regime_2 |-> 33554,
     traffic_regime_3 |-> 55923,
     traffic_regime_1_coeff |-> 70,
     traffic_regime_2_coeff |-> 53,
     traffic_regime_3_coeff |-> 125,
     mileage_rate |-> 67,
     turnover_threshold_due_to_cost |-> 3,
     turnover_probability_time_cost |-> 25,
     employee_replacement_cost |-> 60000,
     median_salary |-> 114068,
     hours_per_year |-> 2080]

\* The number type of the values a row hands to get_traffic_regime: Python
\* floats (the row of a frame with a text column) or numpy float64.  The
\* first raises on a division by zero, the second yields inf or nan.
FloatKinds == {"float", "float64"}

\* distance / (duration_in_traffic/60) < t, for a threshold t in thousandths
\* and a duration other than 0.
SpeedBelow(distance, duration_in_traffic, t) ==
    IF duration_in_traffic > 0
    THEN distance * 60000 < t * duration_in_traffic
    ELSE distance * 60000 > t * duration_in_traffic

\* The same classification with a speed equal to a threshold put in the
\* regime below it.
RegimeInclusive(cfg, kind, distance, duration_in_traffic) ==
    [exc |-> "none",
     regime |-> IF distance * 60000 <= cfg.traffic_regime_2 * duration_in_traffic THEN 1
                ELSE IF distance * 60000 <= cfg.traffic_regime_3 * duration_in_traffic THEN 2
                ELSE 3]

\* Analyzer.get_traffic_regime.  With a duration of 0 the division raises
\* ZeroDivisionError on Python floats; on float64 the speed is inf (nan for
\* a distance of 0, -inf for a negative one) and the comparisons decide.
get_traffic_regime(cfg, kind, distance, duration_in_traffic) ==
    IF duration_in_traffic = 0
    THEN IF kind = "float"
         THEN [exc |-> "ZeroDivisionError", regime |-> 0]
         ELSE [exc |-> "none", regime |-> IF distance < 0 THEN 1 ELSE 3]
    ELSE [exc |-> "none",
          regime |-> IF SpeedBelow(distance, duration_in_traffic, cfg.traffic_regime_2) THEN 1
                     ELSE IF SpeedBelow(distance, duration_in_traffic, cfg.traffic_regime_3) THEN 2
                     ELSE 3]

\* Analyzer.get_traffic_emissions_factor, in hundredths.
get_traffic_emissions_factor(cfg, regime) ==
    CASE regime = 1 -> cfg.traffic_regime_1_coeff
      [] regime = 2 -> cfg.traffic_regime_2_coeff
      [] regime = 3 -> cfg.traffic_regime_3_coeff
      [] OTHER -> 100

\* A cost update that adds to the value the row already holds.
CostAccumulated(cfg, rec) ==
    [rec EXCEPT !.commute_cost = rec.commute_cost + rec.miles * cfg.mileage_rate]

\* The row get_commute_cost writes: commute_cost = miles * mileage_rate.
CostRow(cfg, rec) ==
    [rec EXCEPT !.commute_cost = rec.miles * cfg.mileage_rate]

\* The slots of a row at which get_traffic_regime raises.
FailingSlots(cfg, kind, rec) ==
    {s \in Slots :
        get_traffic_regime(cfg, kind, rec.miles, rec.duration_in_traffic[s]).exc # "none"}

Least(S) == CHOOSE x \in S : \A y \in S : x <= y

\* The emissions of slot s: miles * CO2_per_mile * factor of the regime.
SlotEmissions(cfg, kind, rec, s) ==
    rec.miles * cfg.CO2_per_mile *
        get_traffic_emissions_factor(cfg,
            get_traffic_regime(cfg, kind, rec.miles, rec.duration_in_traffic[s]).regime)

\* The row get_commute_emissions writes, up to (not including) slot `upto`:
\* emissions = miles * CO2_per_mile, then the slots in order.
EmissionsRow(cfg, kind, rec, upto) ==
    [rec EXCEPT !.emissions = rec.miles * cfg.CO2_per_mile,
                !.slot_emissions =
                    [s \in Slots |-> IF s < upto THEN SlotEmissions(cfg, kind, rec, s)
                                     ELSE rec.slot_emissions[s]]]

\* The frame the two methods work on: loaded from disk when none is held or
\* force is set, else the one in memory.
CommuteFrame(force) == IF CommuteData \notin data \/ force THEN saved ELSE matrix

\* The record of a run: the method, its argument, the number type of the row
\* values, and the frame it worked on.
Annotating(fn, force, kind, frame) ==
    [fn |-> fn, force |-> force, kind |-> kind, frame |-> frame]

\* Analyzer.get_commute_cost(force): False without commute_data.csv; else
\* every row is updated and the frame saved.  The method has no return
\* statement and does not update the phase.
get_commute_cost ==
    /\ pc = "idle"
    /\ \E force \in BOOLEAN :
        IF CommuteData \notin Listing(project, files)
        THEN /\ Return("get_commute_cost", RetBool(FALSE))
             /\ call' = Annotating("get_commute_cost", force, "float", <<>>)
             /\ UNCHANGED <<data, matrix, saved>>
        ELSE /\ call' = Annotating("get_commute_cost", force, "float", CommuteFrame(force))
             /\ data' = data \cup {CommuteData}
             /\ matrix' = [i \in 1..Len(CommuteFrame(force)) |->
                              CostRow(ProjectAttributes, CommuteFrame(force)[i])]
             /\ saved' = matrix'
             /\ Return("get_commute_cost", RetNone)
    /\ NoCalls
    /\ UNCHANGED <<files, use_gps_fuzzing, project, analysis_phase, clock, uvars,
                   coords>>

\* Analyzer.get_commute_emissions(force): the same shape.  An exception of
\* get_traffic_regime leaves the method at that row and slot, after the
\* rows and slots before it were written in memory and before the save.
get_commute_emissions ==
    /\ pc = "idle"
    /\ \E force \in BOOLEAN, kind \in FloatKinds :
        IF CommuteData \notin Listing(project, files)
        THEN /\ Return("get_commute_emissions", RetBool(FALSE))
             /\ call' = Annotating("get_commute_emissions", force, kind, <<>>)
             /\ UNCHANGED <<data, matrix, saved>>
        ELSE LET frame == CommuteFrame(force)
                 cfg == ProjectAttributes
                 bad == {i \in 1..Len(frame) : FailingSlots(cfg, kind, frame[i]) # {}}
             IN /\ call' = Annotating("get_commute_emissions", force, kind, frame)
                /\ data' = data \cup {CommuteData}
                /\ IF bad = {}
                   THEN /\ matrix' = [i \in 1..Len(frame) |->
                                         EmissionsRow(cfg, kind, frame[i], NumSlots + 1)]
                        /\ saved' = matrix'
                        /\ Return("get_commute_emissions", RetNone)
                   ELSE /\ matrix' = [i \in 1..Len(frame) |->
                                         IF i < Least(bad)
                                         THEN EmissionsRow(cfg, kind, frame[i], NumSlots + 1)
                                         ELSE IF i = Least(bad)
                                         THEN EmissionsRow(cfg, kind, frame[i],
                                                  Least(FailingSlots(cfg, kind, frame[i])))
                                         ELSE frame[i]]
                        /\ Raise("get_commute_emissions", "ZeroDivisionError")
                        /\ UNCHANGED saved
    /\ NoCalls
    /\ UNCHANGED <<files, use_gps_fuzzing, project, analysis_phase, clock, uvars,
                   coords>>

-----------------------------------------------------------------------------
(* What the user does through the UI between two analyzer operations; the  *)
(* request is served by an analyzer of its own, so the phase held by the    *)
(* analyzer at hand is not recomputed.                                      *)

\* do_upload_data_file: a validated data file is saved into the project.
UploadDataFile(S) ==
    /\ pc = "idle"
    /\ \E f \in S :
        /\ f \notin files
        /\ files' = files \cup {f}
        /\ saved' = IF f = CommuteData THEN <<>> ELSE saved
    /\ result' = Finished("do_upload_data_file", "returned", RetNone, "none")
    /\ NoCalls
    /\ UNCHANGED <<use_gps_fuzzing, project, data, analysis_phase, pc, matrix,
                   positions, clock, uvars, coords, call>>

\* delete_data_file: a listed data file is removed from the project.
DeleteDataFile ==
    /\ pc = "idle"
    /\ \E f \in data_file_definitions :
        /\ f \in files
        /\ files' = files \ {f}
        /\ saved' = IF f = CommuteData THEN <<>> ELSE saved
    /\ result' = Finished("delete_data_file", "returned", RetNone, "none")
    /\ NoCalls
    /\ UNCHANGED <<use_gps_fuzzing, project, data, analysis_phase, pc, matrix,
                   positions, clock, uvars, coords, call>>

\* Project.delete_data_file(f) on the project of the analyzer at hand: a
\* listed file is removed and True returned.  The frame is tested with
\* "if self.data[file_name]:" inside try/except: the truth value of a loaded
\* DataFrame raises ValueError, which the bare except swallows, and None is
\* falsy, so the data container is left as it was.
delete_data_file ==
    /\ pc = "idle"
    /\ \E f \in data_file_definitions :
        /\ call' = [fn |-> "delete_data_file", file |-> f]
        /\ IF f \in Listing(project, files)
           THEN /\ files' = files \ {f}
                /\ saved' = IF f = CommuteData THEN <<>> ELSE saved
                /\ result' = Finished("delete_data_file", "returned", RetBool(TRUE), "none")
           ELSE /\ result' = Finished("delete_data_file", "returned", RetBool(FALSE), "none")
                /\ UNCHANGED <<files, saved>>
    /\ NoCalls
    /\ UNCHANGED <<use_gps_fuzzing, project, data, analysis_phase, pc, matrix,
                   positions, clock, uvars, coords>>

\* Project.save_project: None for an unnamed project; else project.json is
\* written and every frame of the data container that is not None is saved
\* to its file, and the project name returned.
save_project ==
    /\ pc = "idle"
    /\ IF project.project_name = ""
       THEN /\ result' = Finished("save_project", "returned", RetNone, "none")
            /\ UNCHANGED <<files, saved>>
       ELSE /\ files' = files \cup data
            /\ saved' = IF CommuteData \in data THEN matrix ELSE saved
            /\ result' = Finished("save_project", "returned", [kind |-> "str", val |-> 0], "none")
    /\ NoCalls
    /\ UNCHANGED <<use_gps_fuzzing, project, data, analysis_phase, pc, matrix,
                   positions, clock, uvars, coords, call>>

\* update_project_vars: the fuzzing checkbox (or an edit of project.json).
SetFuzzing ==
    /\ pc = "idle"
    /\ \E v \in FuzzFlags : v # use_gps_fuzzing /\ use_gps_fuzzing' = v
    /\ result' = Finished("update_project_vars", "returned", RetNone, "none")
    /\ NoCalls
    /\ UNCHANGED <<files, project, data, analysis_phase, pc, matrix,
                   positions, clock, uvars, fvars>>

-----------------------------------------------------------------------------
(* HTTP_UI and the background worker (python3 -m relocation_impact_analyzer) *)
(* worker[a] counts the processes of action a: launched by os.system and    *)
(* not yet in their handle_* function, and running their operation.         *)

\* The data files the POST branch and the worker's handle_* function require.
Prerequisites(a, fz) ==
    CASE a = "do_convert_addresses_latlong" -> {EmpAddr, OffAddr}
      [] a = "do_gen_commute" -> (IF Truthy(fz) THEN {GpsFuzz} ELSE {}) \cup {OffGps}
      [] OTHER -> {CommuteData}

\* The operations that are handed the log path (log_csv) open it with "a+".
OpensLog(a) == a \in {"do_convert_addresses_latlong", "do_gen_commute"}

\* HTTP_UI.do_POST, up to os.system("python3 -m relocation_impact_analyzer
\* proj action &"): the worker is launched before the log is looked at.
do_POST ==
    /\ handler.at = "idle"
    /\ \E a \in UIActions :
        /\ worker[a].launched + worker[a].running < MaxWorkers
        /\ IF Prerequisites(a, use_gps_fuzzing) \subseteq files
           THEN /\ worker' = [worker EXCEPT ![a].launched = @ + 1]
                /\ ran' = [ran EXCEPT ![a] = "no"]
                /\ handler' = [action |-> a, at |-> "exists", status |-> "started"]
           ELSE /\ handler' = [action |-> a, at |-> "idle", status |-> "missing"]
                /\ UNCHANGED <<worker, ran>>
    /\ UNCHANGED <<sentinel, avars>>

\* do_POST: if not os.path.exists(log)
PostExists ==
    /\ handler.at = "exists"
    /\ handler' = [handler EXCEPT !.at = IF sentinel[handler.action] THEN "idle" ELSE "open"]
    /\ UNCHANGED <<sentinel, worker, ran, avars>>

\* do_POST: with open(log, 'w') as file: file.write(...)
PostOpen ==
    /\ handler.at = "open"
    /\ sentinel' = [sentinel EXCEPT ![handler.action] = TRUE]
    /\ handler' = [handler EXCEPT !.at = "idle"]
    /\ UNCHANGED <<worker, ran, avars>>

\* do_GET with get_status: "in progress" iff the log of the action exists.
do_GET ==
    /\ handler.at = "idle"
    /\ \E a \in UIActions :
        handler' = [action |-> a, at |-> "idle",
                    status |-> IF sentinel[a] THEN "in progress" ELSE "complete"]
    /\ UNCHANGED <<sentinel, worker, ran, avars>>

\* The worker process: main() and the check of handle_*, then the entry of
\* the operation, which opens the log when it is handed one.
WorkerBegin ==
    \E a \in UIActions :
        /\ worker[a].launched > 0
        /\ IF Prerequisites(a, use_gps_fuzzing) \subseteq files
           THEN /\ worker' = [worker EXCEPT ![a].launched = @ - 1, ![a].running = @ + 1]
                /\ sentinel' = [sentinel EXCEPT ![a] = @ \/ OpensLog(a)]
                /\ UNCHANGED ran
           ELSE /\ worker' = [worker EXCEPT ![a].launched = @ - 1]
                /\ ran' = [ran EXCEPT ![a] = "skipped"]
                /\ UNCHANGED sentinel
        /\ UNCHANGED <<handler, avars>>

\* The operation returns: if os.path.exists(logfile): os.remove(logfile).
WorkerEnd ==
    \E a \in UIActions :
        /\ worker[a].running > 0
        /\ worker' = [worker EXCEPT ![a].running = @ - 1]
        /\ ran' = [ran EXCEPT ![a] = "ok"]
        /\ sentinel' = [sentinel EXCEPT ![a] = FALSE]
        /\ UNCHANGED <<handler, avars>>

\* The operation raises: the process ends with the log left as it is.
WorkerRaise ==
    \E a \in UIActions :
        /\ worker[a].running > 0
        /\ worker' = [worker EXCEPT ![a].running = @ - 1]
        /\ ran' = [ran EXCEPT ![a] = "failed"]
        /\ UNCHANGED <<sentinel, handler, avars>>

\* A project with every data file in place, served by the UI.
InitUI ==
    /\ files = data_file_definitions
    /\ use_gps_fuzzing \in {"bTrue", "bFalse"}
    /\ AnalyzerInit("", files, use_gps_fuzzing)
    /\ DiskInit
    /\ UIInit

NextUI ==
    \/ do_POST \/ PostExists \/ PostOpen \/ do_GET
    \/ WorkerBegin \/ WorkerEnd \/ WorkerRaise

SpecUI == InitUI /\ [][NextUI]_vars

\* The pipeline: the user uploads the two address files and runs the
\* operations up to the graphs and tables, each callable at any time.
Next ==
    \/ Construct \/ create_project \/ load_project \/ UpdatePhase
    \/ fuzz_employee_gps \/ generate_graphs \/ generate_tables
    \/ ConvertStart \/ ConvertFile \/ GeocodeRow \/ ConvertSave
    \/ CommuteStart \/ CommuteRecord \/ CommuteSlot
    \/ UploadDataFile({EmpAddr, OffAddr}) \/ SetFuzzing
    \/ Tick

Spec == Init /\ [][Next]_vars

\* The inventory: any data file can be uploaded or deleted between two of
\* the short operations of the analyzer.
NextInventory ==
    \/ Construct \/ create_project \/ load_project \/ UpdatePhase
    \/ fuzz_employee_gps \/ generate_graphs \/ generate_tables
    \/ UploadDataFile(data_file_definitions) \/ DeleteDataFile \/ SetFuzzing

SpecInventory == Init /\ [][NextInventory]_vars

\* The project object of one analyzer: frames are loaded by the operations
\* that read them, files deleted and the project saved, in any order.
InitProject ==
    /\ files \in SUBSET {EmpGps, OffGps, CommuteData}
    /\ use_gps_fuzzing \in {"bTrue", "bFalse"}
    /\ AnalyzerInit("P", files, use_gps_fuzzing)
    /\ DiskInit
    /\ UIInit

NextProject ==
    \/ fuzz_employee_gps \/ generate_graphs
    \/ delete_data_file \/ save_project

SpecProject == InitProject /\ [][NextProject]_vars

\* The commute matrix: a project whose addresses have been geocoded and
\* fuzzed; the matrix is built, annotated with costs and emissions, and read
\* by the graphs, in any order and any number of times.
InitAnnotate ==
    /\ files = {EmpAddr, OffAddr, EmpGps, OffGps, GpsFuzz}
    /\ use_gps_fuzzing = "bTrue"
    /\ AnalyzerInit("P", files, use_gps_fuzzing)
    /\ DiskInit
    /\ UIInit

NextAnnotate ==
    \/ Construct
    \/ CommuteStart \/ CommuteRecord \/ CommuteSlot \/ Tick
    \/ get_commute_cost \/ get_commute_emissions
    \/ generate_graphs

SpecAnnotate == InitAnnotate /\ [][NextAnnotate]_vars

-----------------------------------------------------------------------------
(* The command-line worker for do_gen_commute: main() has built an Analyzer  *)
(* and loaded the project; handle_gen_commute then calls the three methods   *)
(* one after the other and ignores what they return.                         *)

\* handle_gen_commute: the test that prints "Data files not available."
HandleMissing ==
    \/ Truthy(use_gps_fuzzing) /\ GpsFuzz \notin Listing(project, files)
    \/ OffGps \notin Listing(project, files)

\* handle_gen_commute, up to the entry of get_commute_data: return 1 when the
\* test finds a file missing, else analyzer.get_commute_data(log_csv=logfile).
handle_gen_commute ==
    /\ pc = "idle"
    /\ result.op = "__init__"
    /\ \/ /\ HandleMissing
          /\ result' = Finished("handle_gen_commute", "returned", RetInt(1), "none")
          /\ UNCHANGED <<files, use_gps_fuzzing, project, data, analysis_phase, pc,
                         matrix, positions, counters, clock, uvars, fvars>>
       \/ /\ ~ HandleMissing
          /\ CommuteStart

\* handle_gen_commute: analyzer.get_commute_cost(), whatever
\* get_commute_data returned.
HandleCost ==
    /\ result.op = "get_commute_data"
    /\ get_commute_cost
    /\ ~ call'.force

\* handle_gen_commute: analyzer.get_commute_emissions(), whatever
\* get_commute_cost returned.
HandleEmissions ==
    /\ result.op = "get_commute_cost"
    /\ get_commute_emissions
    /\ ~ call'.force

\* handle_gen_commute: the log is removed and 0 returned.
HandleReturn ==
    /\ pc = "idle"
    /\ result.op = "get_commute_emissions"
    /\ result' = Finished("handle_gen_commute", "returned", RetInt(0), "none")
    /\ sentinel' = [sentinel EXCEPT !["do_gen_commute"] = FALSE]
    /\ UNCHANGED <<files, use_gps_fuzzing, project, data, analysis_phase, pc,
                   matrix, positions, counters, clock, handler, worker, ran, fvars>>

\* The worker starts on a project holding any of the gps files, with or
\* without fuzzing.
InitWorker ==
    /\ files \in SUBSET {EmpGps, OffGps, GpsFuzz}
    /\ use_gps_fuzzing \in {"bTrue", "bFalse"}
    /\ AnalyzerInit("P", files, use_gps_fuzzing)
    /\ DiskInit
    /\ UIInit

NextWorker ==
    \/ handle_gen_commute
    \/ CommuteRecord \/ CommuteSlot \/ Tick
    \/ HandleCost \/ HandleEmissions \/ HandleReturn

SpecWorker == InitWorker /\ [][NextWorker]_vars

-----------------------------------------------------------------------------
(* The helpers of the analyzer, applied to inputs of bounded size *)

\* Texts of at most n tokens over the amounts A and the unit words W.
RECURSIVE TextsUpTo(_, _, _)
TextsUpTo(n, A, W) ==
    IF n = 0 THEN {<<>>}
    ELSE LET shorter == TextsUpTo(n - 1, A, W)
         IN shorter \cup {Append(t, Tok(a, w)) : t \in shorter, a \in A, w \in W}

\* Unit words as the directions service writes them, the same words with
\* upper-case letters, and a word that is no unit of time.
LowerTimeWords == {"hour", "hours", "hrs", "minute", "min", "mins", "sec", "seconds"}
UpperTimeWords == {"Hour", "HRS", "Mins"}
TimeTexts == TextsUpTo(MaxTokens, {1, 2, 12}, LowerTimeWords \cup UpperTimeWords \cup {"day"})

\* Each behaviour applies one helper to one input.
\* self.convert_stringtime_to_minutes(time_string)
ApplyConvertTime ==
    /\ call = NoCall
    /\ \E text \in TimeTexts :
        call' = [fn |-> "convert_stringtime_to_minutes", text |-> text,
                 ret |-> convert_stringtime_to_minutes(text)]
    /\ UNCHANGED <<svars, uvars>>

\* Distance texts: miles as the service writes them, and other units.
MileWords == {"mi", "mile", "miles"}
OtherDistWords == {"km", "kilometers", "m", "meters", "ft", "yd", "in"}
DistTexts == TextsUpTo(MaxTokens, {3, 12, 1234}, MileWords \cup OtherDistWords)

\* self.convert_stringdistance_to_d(distance_string)
ApplyConvertDistance ==
    /\ call = NoCall
    /\ \E text \in DistTexts :
        call' = [fn |-> "convert_stringdistance_to_d", text |-> text,
                 ret |-> convert_stringdistance_to_d(text)]
    /\ UNCHANGED <<svars, uvars>>

\* The sum of the first k values, whatever their size.
RECURSIVE HeadSum(_, _)
HeadSum(values, k) ==
    IF k = 0 \/ values = <<>> THEN 0
    ELSE Head(values) + HeadSum(Tail(values), k - 1)

\* row.nlargest(k), summed: the largest value is taken k times over from
\* what is left of the row.
RECURSIVE nlargest_sum(_, _)
nlargest_sum(values, k) ==
    IF k = 0 \/ values = <<>> THEN 0
    ELSE LET i == CHOOSE i \in 1..Len(values) : \A j \in 1..Len(values) : values[j] <= values[i]
             rest == SubSeq(values, 1, i - 1) \o SubSeq(values, i + 1, Len(values))
         IN values[i] + nlargest_sum(rest, k - 1)

\* The time-cost columns of one row of val_set.  Means are held in sixtieths
\* of a minute (60 is divisible by every count from 1 to 5), and costs in
\* units of 1/(3600 * hours_per_year) dollar, so that the per-minute cost
\* median_salary / (hours_per_year * 60) becomes a multiplication by
\* median_salary and commute_cost, in cents, one by 36 * hours_per_year.
time_costs(mornings, evenings, commute_cost, cdpw, cfg) ==
    LET average(v) == (HeadSum(v, Len(v)) * 60) \div Len(v)
        top(v) == (nlargest_sum(v, cdpw) * 60) \div (IF cdpw < Len(v) THEN cdpw ELSE Len(v))
        fixed == commute_cost * 36 * cfg.hours_per_year
    IN [morning_average |-> average(mornings),
        evening_average |-> average(evenings),
        top_morning |-> top(mornings),
        top_evening |-> top(evenings),
        total_average_cost |->
            average(mornings) * cfg.median_salary + average(evenings) * cfg.median_salary + fixed,
        total_high_cost |->
            top(mornings) * cfg.median_salary + top(evenings) * cfg.median_salary + fixed]

\* The columns computed for a row of any five morning durations, with 1 to 5
\* commute days per week, the default median salary or the 0 the settings
\* form stores for an empty field.
ApplyTimeCosts ==
    /\ call = NoCall
    /\ \E mornings \in [1..(NumSlots \div 2) -> {10, 20, 45}],
          evenings \in {<<30, 30, 30, 30, 30>>, <<15, 60, 25, 40, 5>>},
          commute_cost \in {0, 10 * ProjectAttributes.mileage_rate},
          cdpw \in 1..(NumSlots \div 2),
          salary \in {0, ProjectAttributes.median_salary} :
        call' = [fn |-> "time_costs", mornings |-> mornings, evenings |-> evenings,
                 cdpw |-> cdpw,
                 out |-> time_costs(mornings, evenings, commute_cost, cdpw,
                                    [ProjectAttributes EXCEPT !.median_salary = salary])]
    /\ UNCHANGED <<svars, uvars>>

\* Days until Monday, today counting as the target when it is a Monday.
DaysUntilMondayOrToday(today) == (0 - (today % 7)) % 7

\* get_commute_data: days_until_monday.  Days are numbered from a Monday, so
\* that today.weekday() is today % 7 (Monday 0 ... Sunday 6).
days_until_monday(today) ==
    LET d == (0 - (today % 7)) % 7
    IN IF d = 0 THEN 7 ELSE d

\* get_commute_data: the commutes dict, slot by slot.  The settings are
\* texts "%H:%M", here <<hour, minute>>; strptime(...).time() keeps the hour
\* and minute, and datetime.combine takes the date of next_monday plus 0 to 4
\* days.
commutes(today, morning, evening) ==
    LET next_monday == today + days_until_monday(today)
        departure(text) == [hour |-> text[1], minute |-> text[2]]
    IN [s \in Slots |->
          [day |-> next_monday + ((s - 1) \div 2),
           time |-> IF IsEvening(s) THEN departure(evening) ELSE departure(morning)]]

\* The departure times of a build started on any day, with the default
\* settings "08:00" and "17:00" or edited ones.
ApplyCommutes ==
    /\ call = NoCall
    /\ \E today \in 0..(NumDays - 1),
          morning \in {<<8, 0>>, <<6, 30>>}, evening \in {<<17, 0>>, <<18, 15>>} :
        call' = [fn |-> "commutes", today |-> today,
                 morning |-> morning, evening |-> evening,
                 slots |-> commutes(today, morning, evening)]
    /\ UNCHANGED <<svars, uvars>>

\* Project settings: the defaults, and settings edited by the user (speed
\* thresholds of 30 and 60 miles per hour, a turnover threshold of 0.04 and
\* a median salary of 100000).
Configs ==
    {ProjectAttributes,
     [ProjectAttributes EXCEPT !.traffic_regime_2 = 30000, !.traffic_regime_3 = 60000,
                               !.turnover_threshold_due_to_cost = 4,
                               !.median_salary = 100000]}

\* Miles and minutes of a slot.  The minutes are multiples of 15, for which
\* duration/60 and the speed are computed without rounding near a threshold.
Distances == {0, 10, 15, 30, 45, 60}
Durations == {0, 15, 30, 45, 60, 90}

\* self.get_traffic_regime(distance, duration_in_traffic)
ApplyTrafficRegime ==
    /\ call = NoCall
    /\ \E cfg \in Configs, kind \in FloatKinds, d \in Distances, t \in Durations :
        call' = [fn |-> "get_traffic_regime", cfg |-> cfg, kind |-> kind,
                 distance |-> d, duration_in_traffic |-> t,
                 out |-> get_traffic_regime(cfg, kind, d, t)]
    /\ UNCHANGED <<svars, uvars>>

\* The employee and office frames handed to the graphs: employees at
\* pairwise different points, two of which share a latitude or a longitude
\* with a third; the first office is the current one, the second the option.
EmployeeAt(j) ==
    IF j = 3 THEN Point(1, 2) ELSE IF j = 4 THEN Point(2, 1) ELSE Point(j, j)
OfficeAt(o) == Point(10 + o, 10 + o)
ScopedEmployees == [j \in 1..NumScoped |-> EmployeeAt(j)]
ScopedOffices == <<1, 2>>

\* What a row of the commute frame may hold: miles (the cut-off is 50), and
\* the row's Total Average Cost and Total High Cost in cents, the sum of the
\* cost of the time on the road and of commute_cost.
RowChoices ==
    {[miles |-> 0, total_average_cost |-> 0, total_high_cost |-> 0],
     [miles |-> 50, total_average_cost |-> 4000, total_high_cost |-> 5000],
     [miles |-> 60, total_average_cost |-> 5000, total_high_cost |-> 6000]}

\* The commute frame of a choice of rows, in the order get_commute_data
\* builds it and with the cost get_commute_cost computes.
ScopedFrame(choice) ==
    [n \in 1..(Len(ScopedOffices) * NumScoped) |->
        LET o == ((n - 1) \div NumScoped) + 1
            j == ((n - 1) % NumScoped) + 1
        IN [office |-> o, origin |-> EmployeeAt(j), destination |-> OfficeAt(o),
            miles |-> choice[n].miles,
            commute_cost |-> choice[n].miles * ProjectAttributes.mileage_rate,
            total_average_cost |-> choice[n].total_average_cost,
            total_high_cost |-> choice[n].total_high_cost]]
ScopedFrames ==
    {ScopedFrame(choice) :
        choice \in [1..(Len(ScopedOffices) * NumScoped) -> RowChoices]}

\* Graphing.filter_drive_distance(sources, targets, radius, commute_data,
\* inside): the sources with a row to one of the targets whose miles are
\* within (outside) the radius.
filter_drive_distance(sources, targets, radius, commute_data, inside) ==
    LET check_d(p) ==
            \E t \in 1..Len(targets), r \in 1..Len(commute_data) :
                /\ commute_data[r].origin = p
                /\ commute_data[r].destination = targets[t]
                /\ IF inside THEN commute_data[r].miles <= radius
                   ELSE commute_data[r].miles > radius
    IN SelectSeq(sources, check_d)

\* Graphing.get_commute_values(emp, office, commute_data, values): the rows
\* to the office whose origin_lat is among the latitudes of emp and whose
\* origin_long is among its longitudes.  A frame emp without rows has no
\* column 'latitude': KeyError.
get_commute_values(emp, office, commute_data) ==
    LET latitudes == {emp[i].latitude : i \in 1..Len(emp)}
        longitudes == {emp[i].longitude : i \in 1..Len(emp)}
        selected(row) ==
            /\ row.destination = office
            /\ row.origin.latitude \in latitudes
            /\ row.origin.longitude \in longitudes
    IN [exc |-> IF emp = <<>> THEN "KeyError" ELSE "none",
        rows |-> IF emp = <<>> THEN <<>> ELSE SelectSeq(commute_data, selected)]

\* The employees within the cut-off of office o, and the values of o.
Within(o, commute_data) ==
    filter_drive_distance(ScopedEmployees, <<OfficeAt(o)>>,
                          ProjectAttributes.commute_range_cut_off, commute_data, TRUE)

\* emp_within = filter_drive_distance(...); get_commute_values(emp_within, ...)
ApplyScope ==
    /\ call = NoCall
    /\ \E frame \in ScopedFrames, o \in {1, 2} :
        call' = [fn |-> "get_commute_values", frame |-> frame, office |-> o,
                 within |-> Within(o, frame),
                 out |-> get_commute_values(Within(o, frame), OfficeAt(o), frame)]
    /\ UNCHANGED <<svars, uvars>>

\* A cost column filled for every employee, in scope of the office or not.
CostsUnfiltered(emp, within, table, o, column) ==
    [j \in 1..Len(emp) |->
        LET match(row) == row.origin = emp[j] /\ row.office = o
        IN Head(SelectSeq(table, match))[column]]

\* get_base_cost_df and the loop over the employees within the cut-off: a
\* cost of 0 for every employee row, replaced for the employees within by
\* the value of the first row of the table with their coordinates and the
\* office's address.
UpdatedCosts(emp, within, table, o, column) ==
    [j \in 1..Len(emp) |->
        IF \E w \in 1..Len(within) : within[w] = emp[j]
        THEN LET match(row) == row.origin = emp[j] /\ row.office = o
             IN Head(SelectSeq(table, match))[column]
        ELSE 0]

\* cost_values[i]['cost'] - base_costs['cost'], row by row.
Differentials(alt, base) == [j \in 1..Len(base) |-> alt[j] - base[j]]

\* The differentials under the mask (alt != 0) & (base != 0), as a list.
MaskedDifferentials(alt, base) ==
    LET rows == [j \in 1..Len(base) |-> j]
        mask(j) == alt[j] # 0 /\ base[j] # 0
        kept == SelectSeq(rows, mask)
    IN [k \in 1..Len(kept) |-> alt[kept[k]] - base[kept[k]]]

\* generate_graphs, the commute cost differentials of the option against
\* the current office.
ApplyCostDifferentials ==
    /\ call = NoCall
    /\ \E frame \in ScopedFrames :
        LET base == UpdatedCosts(ScopedEmployees, Within(1, frame), frame, 1, "commute_cost")
            alt == UpdatedCosts(ScopedEmployees, Within(2, frame), frame, 2, "commute_cost")
        IN call' = [fn |-> "cost_differentials", frame |-> frame,
                    base_costs |-> base, cost_values |-> alt,
                    diffs |-> Differentials(alt, base),
                    diffs2 |-> MaskedDifferentials(alt, base)]
    /\ UNCHANGED <<svars, uvars>>

\* Analyzer.get_attrition_analysis from the point where each row of an
\* office's val_set has its Total Average Cost and Total High Cost: the
\* average and conservative differentials of the option.  The val_set of
\* an office is what get_commute_values returns, KeyError included.
get_attrition_analysis(emp, commute_data) ==
    LET val(o) == get_commute_values(Within(o, commute_data), OfficeAt(o), commute_data)
        costs(o, column) ==
            UpdatedCosts(emp, Within(o, commute_data), val(o).rows, o, column)
    IN IF val(1).exc # "none" \/ val(2).exc # "none"
       THEN [exc |-> "KeyError", average_diffs |-> <<>>, conservative_diffs |-> <<>>]
       ELSE [exc |-> "none",
             average_diffs |-> Differentials(costs(2, "total_average_cost"),
                                             costs(1, "total_average_cost")),
             conservative_diffs |-> Differentials(costs(2, "total_high_cost"),
                                                  costs(1, "total_high_cost"))]

\* A count that includes the differentials equal to the threshold.
AtOrAboveThreshold(cfg, diffs) ==
    Cardinality({j \in 1..Len(diffs) :
        diffs[j] * cfg.commute_days_per_week * cfg.commute_weeks_per_year
            >= cfg.turnover_threshold_due_to_cost * cfg.median_salary})

\* daily_threshold = turnover_threshold_due_to_cost * median_salary /
\* (commute_days_per_week * commute_weeks_per_year), and the count of the
\* differentials with 'each > daily_threshold' (differentials in cents, the
\* threshold setting in hundredths).
above_threshold(cfg, diffs) ==
    Cardinality({j \in 1..Len(diffs) :
        diffs[j] * cfg.commute_days_per_week * cfg.commute_weeks_per_year
            > cfg.turnover_threshold_due_to_cost * cfg.median_salary})

\* cost_impact = above_threshold * turnover_probability_time_cost *
\* employee_replacement_cost, in hundredths.
cost_impact(cfg, above) ==
    above * cfg.turnover_probability_time_cost * cfg.employee_replacement_cost

\* generate_graphs, the attrition counts of the option: column 0 counts the
\* average differentials, column 1 the conservative ones.
ApplyAttrition ==
    /\ call = NoCall
    /\ \E frame \in ScopedFrames, cfg \in Configs :
        LET analysis == get_attrition_analysis(ScopedEmployees, frame)
            count(c) == above_threshold(cfg, IF c = 0 THEN analysis.average_diffs
                                             ELSE analysis.conservative_diffs)
        IN call' = [fn |-> "attrition", frame |-> frame, cfg |-> cfg,
                    analysis |-> analysis,
                    above |-> [c \in {0, 1} |-> count(c)],
                    impact |-> [c \in {0, 1} |-> cost_impact(cfg, count(c))]]
    /\ UNCHANGED <<svars, uvars>>

NextFn ==
    \/ ApplyConvertTime
    \/ ApplyConvertDistance
    \/ ApplyTrafficRegime
    \/ ApplyScope
    \/ ApplyCostDifferentials
    \/ ApplyAttrition
    \/ ApplyCommutes
    \/ ApplyTimeCosts

\* The helpers do not read the project: one project stands for all.
InitFn == Init /\ coords.off[1] # coords.off[2]

SpecFn == InitFn /\ [][NextFn]_vars

-----------------------------------------------------------------------------
(* Properties *)

Loaded == project.project_name # ""
FuzzingEnabled == use_gps_fuzzing \notin {"bFalse", "sFalse"}
AfterUpdate == result.op = "update_analysis_phase"
CommuteItem == result.op = "get_commute_data"
MappedRecoverable(c) ==
    c \in DOMAIN google_api_exceptions /\ google_api_exceptions[c] = "recoverable"
BuildEnded(op) == result.op = op /\ result.status # "running"

\* C1: after a call of update_analysis_phase the phase is an integer in 0..6,
\* is the value the method returned, and is the same whatever phase was held
\* before the call.
C1_PhaseFunctionOfInventory ==
    AfterUpdate =>
        /\ analysis_phase \in 0..6
        /\ result.ret = RetInt(analysis_phase)
        /\ \A p \in 0..6 :
            update_analysis_phase(p, project, files, use_gps_fuzzing).phase = analysis_phase

\* C2: when an operation that changed the artifacts has returned, the phase
\* held is the one update_analysis_phase derives from the artifacts now
\* present, and it is at least 5 once get_commute_data has written
\* commute_data.csv.
C2_PhaseFreshAfterOperation ==
    ( /\ pc = "idle"
      /\ result.status = "returned"
      /\ result.ret # RetBool(FALSE)
      /\ result.op \in {"create_project", "load_project", "convert_addresses_to_gps",
                        "fuzz_employee_gps", "get_commute_data", "generate_graphs"} )
    => /\ update_analysis_phase(analysis_phase, project, files, use_gps_fuzzing).phase
            = analysis_phase
       /\ (result.op = "get_commute_data" => analysis_phase >= 5)

\* C3: for a loaded project, update_analysis_phase leaves 1 without the
\* employee addresses; with both address files 2 while a GPS file is absent;
\* with both GPS files 3 while fuzzing is enabled and gps_fuzz.csv is absent;
\* with fuzzing resolved 4 while commute_data.csv is absent; 5 with
\* commute_data.csv and no plots/graphs.json; 6 with plots/graphs.json, also
\* when tables/tables.json is there.
C3_PhaseTable ==
    (AfterUpdate /\ Loaded) =>
        LET addr == {EmpAddr, OffAddr} \subseteq files
            gps == addr /\ {EmpGps, OffGps} \subseteq files
            resolved == gps /\ (GpsFuzz \in files \/ ~ FuzzingEnabled)
            commuted == resolved /\ CommuteData \in files
            graphed == commuted /\ GraphsJson \in files
        IN /\ EmpAddr \notin files => analysis_phase = 1
           /\ (addr /\ ~ gps) => analysis_phase = 2
           /\ (gps /\ ~ resolved) => analysis_phase = 3
           /\ (resolved /\ ~ commuted) => analysis_phase = 4
           /\ (commuted /\ ~ graphed) => analysis_phase = 5
           /\ graphed => analysis_phase = 6

\* C3, its case: the phase was updated for a loaded project that holds every
\* artifact, tables/tables.json included.
C3_Witness ==
    /\ AfterUpdate /\ Loaded
    /\ files = Artifacts
    /\ analysis_phase = 6

\* C4: an analyzer constructed without a project name holds phase 0, after
\* construction and after each later phase update.
C4_NoProjectPhaseZero ==
    (~ Loaded /\ result.op \in {"__init__", "update_analysis_phase"}) => analysis_phase = 0

\* C5: in get_commute_data, a first call that fails with a recoverable
\* exception of the provider is followed by exactly one more call for the
\* slot.
C5_RecoverableRetriedOnce ==
    (CommuteItem /\ MappedRecoverable(firstExc.outcome)) => calls = 2

C7_MinimumSpacing == CommuteItem => ~ shortGap

\* C8: convert_addresses_to_gps or get_commute_data started with a
\* prerequisite artifact missing returns False, without raising and without
\* a provider call.
C8_MissingPrerequisiteNoCalls ==
    ( /\ BuildEnded("convert_addresses_to_gps") \/ BuildEnded("get_commute_data")
      /\ missing )
    => /\ result.status = "returned"
       /\ result.ret = RetBool(FALSE)
       /\ opCalls = 0

\* C9: the sentinel log of an action exists while its worker runs, and is
\* absent once the worker has completed successfully and the request that
\* launched it is over.
C9_SentinelLifecycle ==
    \A a \in UIActions :
        /\ worker[a].running > 0 => sentinel[a]
        /\ (ran[a] = "ok" /\ worker[a].launched + worker[a].running = 0 /\ handler.at = "idle")
               => ~ sentinel[a]

CommuteCompleted ==
    /\ result.op = "get_commute_data"
    /\ result.status = "returned"
    /\ result.ret = RetNone

\* C10 as stated: when get_commute_data has completed, no field of any
\* record holds the -1 sentinel.
C10_NoSentinelLeft ==
    CommuteCompleted =>
        \A i \in 1..Len(matrix) :
            /\ matrix[i].miles # Unset /\ matrix[i].duration # Unset
            /\ matrix[i].emissions # Unset /\ matrix[i].commute_cost # Unset
            /\ \A s \in Slots : /\ matrix[i].duration_in_traffic[s] # Unset
                                /\ matrix[i].slot_emissions[s] # Unset

\* C10, amended: when get_commute_data has completed, the matrix holds one
\* record per (office, employee) pair and in each record miles, duration and
\* the ten duration_in_traffic fields no longer hold the -1 sentinel.
C10_BuilderFieldsFilled ==
    CommuteCompleted =>
        /\ Len(matrix) = NumOffices * NumEmployees
        /\ \A i \in 1..Len(matrix) :
            /\ matrix[i].miles # Unset /\ matrix[i].duration # Unset
            /\ \A s \in Slots : matrix[i].duration_in_traffic[s] # Unset

\* C10, its case: a completed build with at least one record.
C10_Witness == CommuteCompleted /\ Len(matrix) >= 1 /\ CommuteData \in files

\* Sum of the amounts of the tokens of a text whose unit word is in W.
RECURSIVE AmountOf(_, _)
AmountOf(text, W) ==
    IF text = <<>> THEN 0
    ELSE (IF Head(text).word \in W THEN Head(text).amount ELSE 0) + AmountOf(Tail(text), W)

HourWords == {"hour", "hours", "hrs"}
MinuteWords == {"minute", "minutes", "min", "mins"}
SecondWords == {"second", "seconds", "sec", "secs"}
ConvertTimeApplied == call.fn = "convert_stringtime_to_minutes"
WordsOf(text) == {text[i].word : i \in 1..Len(text)}

C20_UnitCaseIgnored ==
    ConvertTimeApplied =>
        call.ret = 60 * AmountOf(call.text, HourWords \cup {"Hour", "Hours", "HRS"})
                   + AmountOf(call.text, MinuteWords \cup {"Min", "Mins"})

RegimeApplied == call.fn = "get_traffic_regime"

\* C16: with a duration above 0, get_traffic_regime returns 1 when the speed
\* distance/(duration/60) is below traffic_regime_2, 2 when it is at least
\* traffic_regime_2 and below traffic_regime_3, and 3 otherwise; a speed
\* equal to a threshold is in the higher regime.
C16_RegimeBySpeed ==
    (RegimeApplied /\ call.duration_in_traffic > 0) =>
        LET lhs == call.distance * 60000
            t2 == call.cfg.traffic_regime_2 * call.duration_in_traffic
            t3 == call.cfg.traffic_regime_3 * call.duration_in_traffic
        IN /\ call.out.exc = "none"
           /\ call.out.regime = 1 <=> lhs < t2
           /\ call.out.regime = 2 <=> (lhs >= t2 /\ lhs < t3)
           /\ call.out.regime = 3 <=> lhs >= t3
           /\ lhs = t2 => call.out.regime = 2
           /\ lhs = t3 => call.out.regime = 3

\* C16, its case: 30 miles in 60 minutes with traffic_regime_2 at 30 miles
\* per hour, classified as regime 2.
C16_Witness ==
    /\ RegimeApplied
    /\ call.duration_in_traffic > 0
    /\ call.distance * 60000 = call.cfg.traffic_regime_2 * call.duration_in_traffic
    /\ call.out.regime = 2

EmissionsEnded ==
    /\ result.op = "get_commute_emissions"
    /\ result.status # "running"
    /\ result.ret # RetBool(FALSE)

\* C17: get_commute_emissions completes on a matrix with a slot whose parsed
\* duration is 0, and that slot's emissions use the coefficient of regime 1
\* (congested): no division by zero ends the method.
C17_ZeroDurationCongested ==
    EmissionsEnded =>
        /\ result.status = "returned"
        /\ \A i \in 1..Len(matrix) : \A s \in Slots :
              matrix[i].duration_in_traffic[s] = 0 =>
                  matrix[i].slot_emissions[s] =
                      matrix[i].miles * ProjectAttributes.CO2_per_mile
                          * ProjectAttributes.traffic_regime_1_coeff

\* miles and duration of the rows of frame `old` that are set are the same
\* in frame `new`.
Kept(old, new) ==
    \A i \in 1..Len(old) :
        i <= Len(new) =>
            /\ old[i].miles # Unset => new[i].miles = old[i].miles
            /\ old[i].duration # Unset => new[i].duration = old[i].duration

\* A step of get_commute_cost or get_commute_emissions that got past the
\* check of commute_data.csv.
AnnotateStep ==
    /\ pc = "idle"
    /\ result'.op \in {"get_commute_cost", "get_commute_emissions"}
    /\ result'.ret # RetBool(FALSE)

\* C12: miles and duration of a record are written once, by the slot of
\* Monday morning of the build, from that slot's response; no later slot of
\* the build and no run of get_commute_cost or get_commute_emissions changes
\* them.
C12_MilesDurationWrittenOnce ==
    [][ /\ pc = "commute_slot" =>
            /\ Kept(matrix, matrix')
            /\ \A i \in 1..Len(matrix) :
                 (i <= Len(matrix') /\ matrix'[i].miles # matrix[i].miles) =>
                    /\ slot = 1 /\ i = Len(matrix)
                    /\ matrix[i].miles = Unset /\ matrix[i].duration = Unset
                    /\ matrix'[i].miles =
                         convert_stringdistance_to_d(directions(offIdx, empIdx, 1).distance)
                    /\ matrix'[i].duration =
                         convert_stringtime_to_minutes(directions(offIdx, empIdx, 1).duration)
        /\ AnnotateStep =>
            \E frame \in {matrix, saved} :
                /\ Len(matrix') = Len(frame)
                /\ Kept(frame, matrix') /\ Kept(matrix', frame)
                /\ result'.status = "returned" => saved' = matrix'
      ]_vars

\* C12, its case: get_commute_cost has run over a built matrix that
\* get_commute_emissions had annotated before.
C12_Witness ==
    /\ result.op = "get_commute_cost" /\ result.status = "returned"
    /\ Len(matrix) = NumOffices * NumEmployees
    /\ \A i \in 1..Len(matrix) :
        /\ matrix[i].miles # Unset /\ matrix[i].duration # Unset
        /\ matrix[i].commute_cost # Unset /\ matrix[i].emissions # Unset
    /\ saved = matrix

\* The last operation was a completed run of method op.
Annotated(op) ==
    /\ result.op = op /\ result.status = "returned" /\ result.ret = RetNone
    /\ call.fn = op

CostSet(frame) == \A i \in 1..Len(frame) : frame[i].commute_cost # Unset
EmissionsSet(frame) ==
    \A i \in 1..Len(frame) :
        /\ frame[i].emissions # Unset
        /\ \A s \in Slots : frame[i].slot_emissions[s] # Unset

EmployeePoints == {coords.emp[e] : e \in DOMAIN coords.emp}
OfficePoints == {coords.off[o] : o \in DOMAIN coords.off}
RecordsOf(p, q) == {i \in 1..Len(matrix) : matrix[i].origin = p /\ matrix[i].destination = q}

\* C11: after a completed build the matrix holds exactly one record for
\* each combination of an employee's coordinates and an office's
\* coordinates, also when several rows carry the same coordinates.
C11_OneRecordPerPointPair ==
    CommuteCompleted =>
        \A p \in EmployeePoints, q \in OfficePoints : Cardinality(RecordsOf(p, q)) = 1

ScopeApplied == call.fn = "get_commute_values"

\* C13: the rows get_commute_values returns for the employees that
\* filter_drive_distance selected for office O are rows to O with miles
\* within commute_range_cut_off: no row of an employee out of O's scope is
\* among the values of O.
C13_OnlyEmployeesInScope ==
    ScopeApplied =>
        \A r \in 1..Len(call.out.rows) :
            /\ call.out.rows[r].destination = OfficeAt(call.office)
            /\ call.out.rows[r].miles <= ProjectAttributes.commute_range_cut_off

\* The value of a column for employee j at office o as the record of the
\* pair gives it: the record's value when its miles are within the cut-off,
\* and 0 otherwise.
InScopeValue(frame, o, j, column) ==
    LET rec == frame[(o - 1) * NumScoped + j]
    IN IF rec.miles <= ProjectAttributes.commute_range_cut_off THEN rec[column] ELSE 0
Delta(frame, j, column) ==
    InScopeValue(frame, 2, j, column) - InScopeValue(frame, 1, j, column)
NonZeroAtBoth(frame, j) ==
    /\ InScopeValue(frame, 1, j, "commute_cost") # 0
    /\ InScopeValue(frame, 2, j, "commute_cost") # 0

RECURSIVE DeltasOfBoth(_, _)
DeltasOfBoth(frame, j) ==
    IF j = 0 THEN <<>>
    ELSE IF NonZeroAtBoth(frame, j)
    THEN Append(DeltasOfBoth(frame, j - 1), Delta(frame, j, "commute_cost"))
    ELSE DeltasOfBoth(frame, j - 1)

DifferentialsApplied == call.fn = "cost_differentials"

AttritionApplied == call.fn = "attrition" /\ call.analysis.exc = "none"
OverThreshold(cfg, frame, column) ==
    {j \in 1..NumScoped :
        Delta(frame, j, column) * cfg.commute_days_per_week * cfg.commute_weeks_per_year
            > cfg.turnover_threshold_due_to_cost * cfg.median_salary}
AtThreshold(cfg, frame, column) ==
    {j \in 1..NumScoped :
        Delta(frame, j, column) * cfg.commute_days_per_week * cfg.commute_weeks_per_year
            = cfg.turnover_threshold_due_to_cost * cfg.median_salary}

\* C15: the attrition count of the alternative office is the number of
\* employees whose average (conservative) total-cost delta is strictly above
\* daily_threshold = turnover_threshold_due_to_cost * median_salary /
\* (commute_days_per_week * commute_weeks_per_year), a delta equal to the
\* threshold is not counted, and the expected cost is the count times
\* turnover_probability_time_cost times employee_replacement_cost.
C15_AttritionCount ==
    AttritionApplied =>
        /\ call.above[0] = Cardinality(OverThreshold(call.cfg, call.frame, "total_average_cost"))
        /\ call.above[1] = Cardinality(OverThreshold(call.cfg, call.frame, "total_high_cost"))
        /\ call.above[0] + Cardinality(AtThreshold(call.cfg, call.frame, "total_average_cost"))
              <= NumScoped
        /\ \A c \in {0, 1} :
              call.impact[c] = call.above[c] * call.cfg.turnover_probability_time_cost
                                   * call.cfg.employee_replacement_cost

\* C15, its case: an employee's average delta equals the threshold and is
\* not counted, while the conservative delta is above it and is counted.
C15_Witness ==
    /\ AttritionApplied
    /\ AtThreshold(call.cfg, call.frame, "total_average_cost") # {}
    /\ call.above[0] = 0
    /\ call.above[1] >= 1
    /\ call.impact[1] > 0

ConvertDistanceApplied == call.fn = "convert_stringdistance_to_d"

\* C21: for a text with a single mile or mi token convert_stringdistance_to_d
\* returns the amount of the token; for a text whose tokens are all in other
\* units (kilometers, meters, feet, yards, inches) it returns 0.
C21_MilesUnchanged ==
    ConvertDistanceApplied =>
        /\ (Len(call.text) = 1 /\ call.text[1].word \in MileWords) =>
                call.ret = call.text[1].amount
        /\ (WordsOf(call.text) \subseteq OtherDistWords) => call.ret = 0

MatrixOperations == {"get_commute_data", "get_commute_cost", "get_commute_emissions"}

\* C22: get_commute_data, get_commute_cost and get_commute_emissions return
\* True when they complete (the matrix is computed or annotated and
\* commute_data.csv saved) and False when a prerequisite is missing; they
\* return nothing else.
C22_SuccessSignal ==
    (result.op \in MatrixOperations /\ result.status = "returned") =>
        /\ result.ret \in {RetBool(TRUE), RetBool(FALSE)}
        /\ result.ret = RetBool(TRUE) => (CommuteData \in files /\ saved = matrix)

\* The gps files get_commute_data reads: the offices and, by the fuzzing
\* setting, the fuzzed or the plain employee coordinates.
RequiredGps == {OffGps} \cup (IF Truthy(use_gps_fuzzing) THEN {GpsFuzz} ELSE {EmpGps})

HandleReturned == result.op = "handle_gen_commute" /\ result.status = "returned"

\* C23: handle_gen_commute returns 0 only if the commute data was generated
\* (commute_data.csv was written with the matrix the methods produced), and
\* returns 1 whenever one of the gps files it requires is not found.
C23_ExitCode ==
    HandleReturned =>
        /\ result.ret = RetInt(0) => (CommuteData \in files /\ saved = matrix)
        /\ ~ (RequiredGps \subseteq files) => result.ret = RetInt(1)

DeleteReturnedTrue ==
    /\ result.op = "delete_data_file"
    /\ result.ret = RetBool(TRUE)
    /\ call.fn = "delete_data_file"

\* C24: after Project.delete_data_file(f) has returned True, f is not listed
\* and its frame in the data container is None, so that a save_project that
\* follows does not write f again, also when f had been loaded.
C24_DeletedFileStaysDeleted ==
    [][DeleteReturnedTrue =>
           /\ call.file \notin Listing(project, files)
           /\ call.file \notin data
           /\ result'.op = "save_project" => call.file \notin files']_vars

\* The build is under way, or an exception has just left it.
Building ==
    /\ result.op = "get_commute_data"
    /\ result.status \in {"running", "raised"}

\* A record whose miles, duration and ten traffic durations are written.
Populated(rec) ==
    /\ rec.miles # Unset
    /\ rec.duration # Unset
    /\ \A s \in Slots : rec.duration_in_traffic[s] # Unset

\* The slots of a record written so far are the first ones, and miles and
\* duration are written with the first slot.
FilledInOrder(rec) ==
    /\ \A s \in Slots : rec.duration_in_traffic[s] # Unset =>
           \A t \in 1..s : rec.duration_in_traffic[t] # Unset
    /\ (rec.miles # Unset) = (rec.duration_in_traffic[1] # Unset)
    /\ (rec.duration # Unset) = (rec.duration_in_traffic[1] # Unset)

\* C25: at every point of a build, an exception leaving it included, every
\* record but the last one created is populated, and the last one is filled
\* slot by slot in the fixed order.
C25_OnlyLastRecordPartial ==
    Building =>
        /\ \A i \in 1..(Len(matrix) - 1) : Populated(matrix[i])
        /\ \A i \in 1..Len(matrix) : FilledInOrder(matrix[i])

\* An exception left the build in the second record, after some of its slots.
C25_Witness ==
    /\ result.op = "get_commute_data"
    /\ result.status = "raised"
    /\ Len(matrix) = 2
    /\ matrix[2].duration_in_traffic[3] # Unset
    /\ matrix[2].duration_in_traffic[4] = Unset

\* The 24 computed columns of a record all hold the sentinel.
Seeded(rec) ==
    /\ rec.miles = Unset /\ rec.duration = Unset
    /\ rec.emissions = Unset /\ rec.commute_cost = Unset
    /\ \A s \in Slots : rec.duration_in_traffic[s] = Unset /\ rec.slot_emissions[s] = Unset

\* Record i is the one of office row (i-1) div E + 1 and employee row
\* (i-1) mod E + 1, for E employee rows.
OfficeMajor(i) ==
    LET E == Len(coords.emp)
        o == ((i - 1) \div E) + 1
        e == ((i - 1) % E) + 1
    IN /\ matrix[i].office = o
       /\ matrix[i].destination = coords.off[o]
       /\ matrix[i].origin = coords.emp[e]

CommuteCalled == call.fn = "commute" /\ call.row \in 1..Len(matrix)

\* C27: the call of an evening slot goes from the employee's coordinates
\* (the origin of the record) to the office's (its destination), the call of
\* a morning slot from the office's to the employee's, each at the departure
\* time of the slot it fills.
C27_EveningFromEmployee ==
    CommuteCalled =>
        LET rec == matrix[call.row]
        IN /\ IsEvening(call.slot) =>
                 call.origin = rec.origin /\ call.destination = rec.destination
           /\ ~ IsEvening(call.slot) =>
                 call.origin = rec.destination /\ call.destination = rec.origin
           /\ call.departure = call.slot

\* The Monday evening call of the second record has been made.
C27_Witness ==
    /\ CommuteCalled
    /\ call.row = 2
    /\ call.slot = 2
    /\ call.origin = matrix[2].origin
    /\ call.origin # call.destination

CommutesApplied == call.fn = "commutes"

\* C28: the first slot falls on a Monday 1 to 7 days after the day of the
\* build (7 when that day is a Monday), and the ten slots are the mornings
\* and evenings of that Monday to the Friday after it, at the configured
\* times, all on days later than the day of the build.
C28_NextMonday ==
    CommutesApplied =>
        LET monday == call.slots[1].day
        IN /\ monday % 7 = 0
           /\ monday - call.today \in 1..7
           /\ (call.today % 7 = 0) => monday - call.today = 7
           /\ \A s \in Slots :
                /\ call.slots[s].day = monday + ((s - 1) \div 2)
                /\ call.slots[s].day % 7 \in 0..4
                /\ call.slots[s].day > call.today
                /\ call.slots[s].time.hour =
                       (IF IsEvening(s) THEN call.evening[1] ELSE call.morning[1])
                /\ call.slots[s].time.minute =
                       (IF IsEvening(s) THEN call.evening[2] ELSE call.morning[2])

\* A build started on a Monday.
C28_Witness ==
    /\ CommutesApplied
    /\ call.today % 7 = 0
    /\ call.slots[NumSlots].day = call.today + 11

TimeCostsApplied == call.fn = "time_costs"

\* C29: with 1 to 5 commute days per week the mean of the largest
\* commute_days_per_week morning (evening) durations is at least the mean of
\* the five, so Total High Cost is at least Total Average Cost, and the two
\* are equal with 5 commute days.
C29_HighAtLeastAverage ==
    (TimeCostsApplied /\ call.cdpw \in 1..5) =>
        /\ call.out.top_morning >= call.out.morning_average
        /\ call.out.top_evening >= call.out.evening_average
        /\ call.out.total_high_cost >= call.out.total_average_cost
        /\ call.cdpw = 5 => call.out.total_high_cost = call.out.total_average_cost

\* Two commute days, the longest mornings late in the week, and a high cost
\* above the average cost.
C29_Witness ==
    /\ TimeCostsApplied
    /\ call.cdpw = 2
    /\ call.mornings = <<10, 10, 20, 45, 45>>
    /\ call.out.top_morning = 45 * 60
    /\ call.out.total_high_cost > call.out.total_average_cost

\* C30: at most one worker generating the commute matrix of the project is
\* alive at a time, and the do_gen_commute request launches none while the
\* sentinel commute_gen_log.csv of a running worker is present.
C30_AtMostOneCommuteWorker ==
    /\ worker["do_gen_commute"].running <= 1
    /\ (worker["do_gen_commute"].running > 0 /\ sentinel["do_gen_commute"])
           => worker["do_gen_commute"].launched = 0

====
